---------------------------- MODULE Spec2Model ----------------------------
(***************************************************************************)
(* laps2onepassword: one-directional reconciliation of LAPS records read   *)
(* from a directory into a 1Password vault (src/main.go, lines 1-433).     *)
(*                                                                         *)
(* The process (main) is modelled step by step: environment check,         *)
(* directory read, vault read, then one step per iteration of the loop of  *)
(* CompareLapsToOnepass, each step including the whole call of             *)
(* CreateOnPassEntryFromLapsEntry or UpdateOnPassEntry it makes.  The      *)
(* directory and the store are the external state; the store outlives the  *)
(* process, so the program can be run again on what it left behind.        *)
(*                                                                         *)
(* getTimeFromFiletime is modelled on its own (SpecDecode), with the       *)
(* duration type narrowed from 64 to DurBits bits.                         *)
(***************************************************************************)
EXTENDS Integers, Sequences, FiniteSets, TLC

VARIABLES
    ldapdir,          \* the directory: the records a search returns
    store,            \* the vault's items, in listing order
    nextId,           \* source of fresh item ids (uuid.New)
    pc,               \* position of main
    run,              \* number of the current run of the program
    lapsentries,      \* main: result of GetLapsEntries
    onepassentries,   \* main: result of GetOnePassEntries (the snapshot)
    cur_laps_idx,     \* CompareLapsToOnepass: records already processed
    created_total,    \* CompareLapsToOnepass: _created_total
    updated_total,    \* CompareLapsToOnepass: _updated_total
    exitStatus,       \* process exit status, -1 while running
    abort,            \* history: why main stopped
    calls,            \* history: calls of create/update made by this run
    seen,             \* history: per processed record, what the match saw
    snapshot0,        \* history: the snapshot as GetOnePassEntries returned it
    prevRun,          \* history: summary of the previous run
    dec_n,            \* getTimeFromFiletime: the argument
    dec_input,        \* getTimeFromFiletime: local input
    dec_t,            \* getTimeFromFiletime: local t, in ns since 1601-01-01
    dec_pc,           \* getTimeFromFiletime: position
    ldap_s,           \* GetLapsEntries: the entry's ms-Mcs-AdmPwdExpirationTime
    ldap_out,         \* GetLapsEntries: lapsentries, as appended so far
    ldap_pc           \* GetLapsEntries: position in the loop body

mainVars == <<ldapdir, store, nextId, pc, run, lapsentries, onepassentries,
              cur_laps_idx, created_total, updated_total, exitStatus, abort,
              calls, seen, snapshot0, prevRun>>
lapsVars == <<ldap_s, ldap_out, ldap_pc>>
decVars == <<dec_n, dec_input, dec_t, dec_pc, ldap_s, ldap_out, ldap_pc>>
vars == <<ldapdir, store, nextId, pc, run, lapsentries, onepassentries,
          cur_laps_idx, created_total, updated_total, exitStatus, abort,
          calls, seen, snapshot0, prevRun, dec_n, dec_input, dec_t, dec_pc,
          ldap_s, ldap_out, ldap_pc>>

----------------------------------------------------------------------------
(* Bounds *)

MaxRecs == 2
MaxEntries == 1
MaxRuns == 2
DurBits == 10
MaxChars == 3

----------------------------------------------------------------------------
(* Data *)

\* LapsEntry{dnshostname, password}; name and expiration play no part in
\* the comparison.
LapsEntry(h, p) == [dnshostname |-> h, password |-> p]

\* onepassword.ItemField{Purpose, Label, Value}
ItemField(purpose, label, value) ==
    [Purpose |-> purpose, Label |-> label, Value |-> value]

\* onepassword.Item{ID, Title, Fields}
Item(id, title, fields) == [ID |-> id, Title |-> title, Fields |-> fields]

CreatedNote == "Created by laps2onepassword"
UpdatedNote == "Updated by laps2onepassword"
LapsUsername == "Administrator"

\* The three fields CreateOnPassEntryFromLapsEntry gives a new item.
NewItemFields(lapsEntry) ==
    << ItemField("USERNAME", "Username", LapsUsername),
       ItemField("PASSWORD", "Password", lapsEntry.password),
       ItemField("NOTES", "notesPlain", CreatedNote) >>

\* Records the directory may hold.
LapsRecords ==
    { LapsEntry("pc01", ""), LapsEntry("pc01", "abc"),
      LapsEntry("pc02", "abc") }

\* Field lists of items the vault may hold before the first run: a login
\* item as 1Password lays it out (labels username/password), an item as
\* this program creates it, two items whose layout is not the expected
\* one, and an item whose title differs from a host name by case only.
VaultLayouts ==
    { [Title |-> "PC01",
       Fields |-> << ItemField("USERNAME", "username", LapsUsername),
                     ItemField("PASSWORD", "password", "abc"),
                     ItemField("NOTES", "notesPlain", "") >>],
      [Title |-> "pc01",
       Fields |-> << ItemField("USERNAME", "username", LapsUsername),
                     ItemField("PASSWORD", "password", "abc"),
                     ItemField("NOTES", "notesPlain", "") >>],
      [Title |-> "pc02",
       Fields |-> << ItemField("USERNAME", "username", LapsUsername),
                     ItemField("PASSWORD", "password", "xyz"),
                     ItemField("NOTES", "notesPlain", "") >>],
      [Title |-> "pc01",
       Fields |-> NewItemFields(LapsEntry("pc01", "abc"))],
      [Title |-> "pc01",
       Fields |-> << ItemField("NOTES", "notesPlain", ""),
                     ItemField("USERNAME", "username", LapsUsername),
                     ItemField("PASSWORD", "password", "abc") >>],
      [Title |-> "pc02",
       Fields |-> << ItemField("USERNAME", "username", LapsUsername),
                     ItemField("PASSWORD", "password", "xyz"),
                     ItemField("", "comment", "") >>] }

SeqsUpTo(S, lo, hi) == UNION { [1..n -> S] : n \in lo..hi }

WithIds(layouts) ==
    [k \in 1..Len(layouts) |->
        Item(k, layouts[k].Title, layouts[k].Fields)]

----------------------------------------------------------------------------
(* Pure helpers *)

\* onepassword.Item.GetValue(field): the value of the first field whose
\* label is field, "" when there is none.
RECURSIVE GetValueFrom(_, _, _)
GetValueFrom(fields, k, field) ==
    IF k > Len(fields) THEN ""
    ELSE IF fields[k].Label = field THEN fields[k].Value
    ELSE GetValueFrom(fields, k + 1, field)

GetValue(item, field) == GetValueFrom(item.Fields, 1, field)

\* The inner loop of CompareLapsToOnepass: index (from 1) of the first
\* snapshot entry whose Title equals the record's dnshostname, 0 if none.
RECURSIVE FirstMatchFrom(_, _, _)
FirstMatchFrom(entries, k, dnshostname) ==
    IF k > Len(entries) THEN 0
    ELSE IF dnshostname = entries[k].Title THEN k
    ELSE FirstMatchFrom(entries, k + 1, dnshostname)

\* As FirstMatch, for a loop that takes the first entry without comparing
\* titles.
FirstMatchAnyTitle(entries, dnshostname) ==
    IF Len(entries) > 0 THEN 1 ELSE 0

\* strings.ToLower, on the titles and host names of this model.
ToLower(t) == IF t = "PC01" THEN "pc01" ELSE t

\* As FirstMatch, for a loop that compares titles without regard to case.
FirstMatchFoldCase(entries, dnshostname) ==
    LET hits == { k \in 1..Len(entries) :
                    ToLower(entries[k].Title) = ToLower(dnshostname) }
    IN  IF hits = {} THEN 0
        ELSE CHOOSE k \in hits : \A j \in hits : k <= j

\* As FirstMatch, for a loop that never finds the record.
FirstMatchNever(entries, dnshostname) == 0

FirstMatch(entries, dnshostname) == FirstMatchFrom(entries, 1, dnshostname)

\* client.UpdateItem: the stored item with the same ID is replaced.
StoreUpdate(st, item) ==
    [k \in 1..Len(st) |-> IF st[k].ID = item.ID THEN item ELSE st[k]]

----------------------------------------------------------------------------
(* The functions of main.go *)

EnvVals == {"unset", "empty", "short", "ok"}

\* GetAndCheckEnvironment.  Each of the three variables is unset, empty,
\* set to fewer than nine characters ("short") or set to more ("ok").  The
\* debug line of the token slices its first nine characters, which panics
\* on a shorter value.
GetAndCheckEnvironment(dotenvOK, host, token, vault) ==
    LET missing(v) == v \in {"unset", "empty"}
        errorcount == (IF missing(host) THEN 1 ELSE 0)
                    + (IF missing(token) THEN 1 ELSE 0)
                    + (IF missing(vault) THEN 1 ELSE 0)
    IN  IF ~dotenvOK THEN "err"
        ELSE IF token = "short" THEN "panic"
        ELSE IF errorcount = 0 THEN "nil"
        ELSE "err"

VaultLookups == {"err", "none", "one", "many"}

\* GetOnePassEntries: the error it returns ("nil" for none) given what the
\* store calls do.
GetOnePassEntriesErr(clientOK, vaults, itemsOK) ==
    IF ~clientOK THEN "vault: client"
    ELSE IF vaults = "err" THEN "vault: lookup"
    ELSE IF vaults = "none" THEN "vault: not found"
    ELSE IF vaults = "many" THEN "vault: found more than once"
    ELSE IF ~itemsOK THEN "vault: items"
    ELSE "nil"

\* What CreateOnPassEntryFromLapsEntry returns when the vault title
\* resolves to no vault or to several: the err of GetVaultsByTitle, which
\* is nil on this path.
VaultCountErr == "nil"

\* CreateOnPassEntryFromLapsEntry: ret is the error returned, write tells
\* whether CreateItem was called and what it answered.
CreateOnPassEntryFromLapsEntry(lapsEntry, id, clientOK, vaults, createOK) ==
    LET opitem == Item(id, lapsEntry.dnshostname, NewItemFields(lapsEntry))
    IN  IF ~clientOK THEN [ret |-> "err", write |-> "none", item |-> opitem]
        ELSE IF vaults = "err"
            THEN [ret |-> "err", write |-> "none", item |-> opitem]
        ELSE IF vaults \in {"none", "many"}
            THEN [ret |-> VaultCountErr, write |-> "none", item |-> opitem]
        ELSE IF createOK
            THEN [ret |-> "nil", write |-> "ok", item |-> opitem]
        ELSE [ret |-> "err", write |-> "fail", item |-> opitem]

\* What UpdateOnPassEntry returns after client.UpdateItem: the result of
\* UpdateItem is dropped and the err tested is still the one of
\* NewClientFromEnvironment, nil on this path.
UpdateItemErr(updateOK) == "nil"

\* UpdateOnPassEntry.  The Item is passed by value but its Fields are
\* pointers shared with the snapshot, so Fields is what the snapshot entry
\* holds when the call ends (by return or by panic).
UpdateOnPassEntry(onepassentry, lapsEntry, clientOK, updateOK) ==
    LET f  == onepassentry.Fields
        f1 == [f EXCEPT ![2].Value = lapsEntry.password]
        f2 == [f1 EXCEPT ![3].Value = UpdatedNote]
    IN  IF ~clientOK THEN [ret |-> "err", write |-> "none", Fields |-> f]
        ELSE IF Len(f) < 2 THEN [ret |-> "panic", write |-> "none", Fields |-> f]
        ELSE IF f[2].Purpose # "PASSWORD"
            THEN [ret |-> "panic", write |-> "none", Fields |-> f]
        ELSE IF Len(f) < 3 THEN [ret |-> "panic", write |-> "none", Fields |-> f1]
        ELSE IF f[3].Purpose # "NOTES"
            THEN [ret |-> "panic", write |-> "none", Fields |-> f1]
        ELSE [ret |-> UpdateItemErr(updateOK),
              write |-> IF updateOK THEN "ok" ELSE "fail",
              Fields |-> f2]

\* As ExitCode, with main leaving with status 0 after a failed comparison.
ExitCodeAlwaysZeroAfterCompare(why) ==
    IF why \in {"done", "compare"} THEN 0 ELSE 2

\* Exit status of the process: os.Exit(0), os.Exit(1), or 2 for a panic.
ExitCode(why) ==
    IF why = "done" THEN 0 ELSE IF why = "compare" THEN 1 ELSE 2

----------------------------------------------------------------------------
(* Initial state *)

NoRun == [status |-> -1, applied |-> FALSE]

MainInit ==
    /\ ldapdir \in SeqsUpTo(LapsRecords, 0, MaxRecs)
    /\ store \in { WithIds(l) : l \in SeqsUpTo(VaultLayouts, 0, MaxEntries) }
    /\ nextId = Len(store) + 1
    /\ pc = "start"
    /\ run = 1
    /\ lapsentries = <<>>
    /\ onepassentries = <<>>
    /\ cur_laps_idx = 0
    /\ created_total = 0
    /\ updated_total = 0
    /\ exitStatus = -1
    /\ abort = "none"
    /\ calls = <<>>
    /\ seen = <<>>
    /\ snapshot0 = <<>>
    /\ prevRun = NoRun

LapsIdle ==
    /\ ldap_s = <<>>
    /\ ldap_out = <<>>
    /\ ldap_pc = "idle"

DecIdle ==
    /\ dec_n = 0
    /\ dec_input = 0
    /\ dec_t = 0
    /\ dec_pc = "idle"
    /\ LapsIdle

Init == MainInit /\ DecIdle

----------------------------------------------------------------------------
(* main *)

\* The process ends: log.Panic (status 2) or os.Exit.
Exits(why) ==
    /\ pc' = "exited"
    /\ abort' = why
    /\ exitStatus' = ExitCode(why)

\* main, lines 401-404
CheckEnv ==
    /\ pc = "start"
    /\ \E dotenvOK \in BOOLEAN, host \in {"unset", "empty", "ok"},
          token \in EnvVals, vault \in {"unset", "empty", "ok"} :
         IF GetAndCheckEnvironment(dotenvOK, host, token, vault) = "nil"
         THEN pc' = "env" /\ UNCHANGED <<abort, exitStatus>>
         ELSE Exits("env")
    /\ UNCHANGED <<ldapdir, store, nextId, run, lapsentries, onepassentries,
                   cur_laps_idx, created_total, updated_total, calls, seen,
                   snapshot0, prevRun>>
    /\ UNCHANGED decVars

\* main, lines 407-414, with GetLapsEntries
ReadLdap ==
    /\ pc = "env"
    /\ \E ldapOK \in BOOLEAN :
         IF ~ldapOK
         THEN Exits("ldap") /\ UNCHANGED lapsentries
         ELSE /\ lapsentries' = ldapdir
              /\ IF Len(ldapdir) < 1
                 THEN Exits("ldap empty")
                 ELSE pc' = "ldap" /\ UNCHANGED <<abort, exitStatus>>
    /\ UNCHANGED <<ldapdir, store, nextId, run, onepassentries,
                   cur_laps_idx, created_total, updated_total, calls, seen,
                   snapshot0, prevRun>>
    /\ UNCHANGED decVars

\* main, lines 417-423, with GetOnePassEntries
ReadVault ==
    /\ pc = "ldap"
    /\ \E clientOK \in BOOLEAN, vaults \in VaultLookups, itemsOK \in BOOLEAN :
         IF GetOnePassEntriesErr(clientOK, vaults, itemsOK) = "nil"
         THEN /\ onepassentries' = store
              /\ snapshot0' = store
              /\ pc' = "compare"
              /\ UNCHANGED <<abort, exitStatus>>
         ELSE /\ Exits(GetOnePassEntriesErr(clientOK, vaults, itemsOK))
              /\ UNCHANGED <<onepassentries, snapshot0>>
    /\ UNCHANGED <<ldapdir, store, nextId, run, lapsentries,
                   cur_laps_idx, created_total, updated_total, calls, seen,
                   prevRun>>
    /\ UNCHANGED decVars

----------------------------------------------------------------------------
(* CompareLapsToOnepass, one loop iteration per step *)

\* The record the loop is at, and the snapshot entry it matches (0: none).
CurRec == lapsentries[cur_laps_idx + 1]
CurMatch == FirstMatch(onepassentries, CurRec.dnshostname)

InLoop == pc = "compare" /\ cur_laps_idx < Len(lapsentries)

\* What the match of the current record saw.
Seen(j) ==
    [match |-> j,
     Fields |-> IF j = 0 THEN <<>> ELSE onepassentries[j].Fields]

\* lines 276-278 and 286: found, and the password equals GetValue
CompareSkip ==
    /\ InLoop
    /\ CurMatch # 0
    /\ CurRec.password = GetValue(onepassentries[CurMatch], "password")
    /\ cur_laps_idx' = cur_laps_idx + 1
    /\ seen' = Append(seen, Seen(CurMatch))
    /\ UNCHANGED <<ldapdir, store, nextId, pc, run, lapsentries,
                   onepassentries, created_total, updated_total, exitStatus,
                   abort, calls, snapshot0, prevRun>>
    /\ UNCHANGED decVars

\* lines 276-286: found, and the password differs from GetValue
CompareUpdate ==
    /\ InLoop
    /\ CurMatch # 0
    /\ CurRec.password # GetValue(onepassentries[CurMatch], "password")
    /\ \E clientOK \in BOOLEAN, updateOK \in BOOLEAN :
         LET j == CurMatch
             r == UpdateOnPassEntry(onepassentries[j], CurRec, clientOK, updateOK)
             sent == [onepassentries[j] EXCEPT !.Fields = r.Fields]
         IN  /\ onepassentries' = [onepassentries EXCEPT ![j].Fields = r.Fields]
             /\ store' = IF r.write = "ok" THEN StoreUpdate(store, sent) ELSE store
             /\ calls' = Append(calls,
                    [kind |-> "update", rec |-> cur_laps_idx + 1,
                     title |-> CurRec.dnshostname, password |-> CurRec.password,
                     target |-> j, client |-> clientOK, vaults |-> "n/a",
                     write |-> r.write, ret |-> r.ret,
                     before |-> onepassentries[j].Fields])
             /\ IF r.ret = "nil"
                THEN /\ updated_total' = updated_total + 1
                     /\ cur_laps_idx' = cur_laps_idx + 1
                     /\ UNCHANGED <<pc, abort, exitStatus>>
                ELSE /\ Exits(IF r.ret = "panic" THEN "panic" ELSE "compare")
                     /\ UNCHANGED <<updated_total, cur_laps_idx>>
    /\ seen' = Append(seen, Seen(CurMatch))
    /\ UNCHANGED <<ldapdir, nextId, run, lapsentries, created_total,
                   snapshot0, prevRun>>
    /\ UNCHANGED decVars

\* lines 287-295: not found
CompareCreate ==
    /\ InLoop
    /\ CurMatch = 0
    /\ \E clientOK \in BOOLEAN, vaults \in VaultLookups, createOK \in BOOLEAN :
         LET r == CreateOnPassEntryFromLapsEntry(CurRec, nextId, clientOK,
                                                 vaults, createOK)
         IN  /\ store' = IF r.write = "ok" THEN Append(store, r.item) ELSE store
             /\ nextId' = IF r.write = "ok" THEN nextId + 1 ELSE nextId
             /\ calls' = Append(calls,
                    [kind |-> "create", rec |-> cur_laps_idx + 1,
                     title |-> r.item.Title,
                     password |-> r.item.Fields[2].Value,
                     target |-> 0, client |-> clientOK, vaults |-> vaults,
                     write |-> r.write, ret |-> r.ret, before |-> <<>>])
             /\ IF r.ret = "nil"
                THEN /\ created_total' = created_total + 1
                     /\ cur_laps_idx' = cur_laps_idx + 1
                     /\ UNCHANGED <<pc, abort, exitStatus>>
                ELSE /\ Exits("compare")
                     /\ UNCHANGED <<created_total, cur_laps_idx>>
    /\ seen' = Append(seen, Seen(0))
    /\ UNCHANGED <<ldapdir, run, lapsentries, onepassentries, updated_total,
                   snapshot0, prevRun>>
    /\ UNCHANGED decVars

\* lines 297-298 and main, lines 427-432: the loop is over
CompareDone ==
    /\ pc = "compare"
    /\ cur_laps_idx = Len(lapsentries)
    /\ Exits("done")
    /\ UNCHANGED <<ldapdir, store, nextId, run, lapsentries, onepassentries,
                   cur_laps_idx, created_total, updated_total, calls, seen,
                   snapshot0, prevRun>>
    /\ UNCHANGED decVars

\* Every call of the run reached the store and was answered with success.
AllApplied == \A k \in 1..Len(calls) : calls[k].write = "ok"

\* The program is started again, on the same directory and on the store as
\* the previous run left it.
Restart ==
    /\ pc = "exited"
    /\ run < MaxRuns
    /\ run' = run + 1
    /\ prevRun' = [status |-> exitStatus, applied |-> AllApplied]
    /\ pc' = "start"
    /\ lapsentries' = <<>>
    /\ onepassentries' = <<>>
    /\ cur_laps_idx' = 0
    /\ created_total' = 0
    /\ updated_total' = 0
    /\ exitStatus' = -1
    /\ abort' = "none"
    /\ calls' = <<>>
    /\ seen' = <<>>
    /\ snapshot0' = <<>>
    /\ UNCHANGED <<ldapdir, store, nextId>>
    /\ UNCHANGED decVars

Next ==
    \/ CheckEnv
    \/ ReadLdap
    \/ ReadVault
    \/ CompareSkip
    \/ CompareUpdate
    \/ CompareCreate
    \/ CompareDone
    \/ Restart

Spec == Init /\ [][Next]_vars

----------------------------------------------------------------------------
(* getTimeFromFiletime *)

\* int64 and time.Duration, narrowed to DurBits bits, two's complement.
MaxInt == 2 ^ (DurBits - 1) - 1
MinInt == 0 - 2 ^ (DurBits - 1)
Wrap(x) == ((x - MinInt) % (2 ^ DurBits)) + MinInt

\* Nanoseconds in one FILETIME interval.
TickNs == 100

\* time.Duration(math.MaxInt64).Truncate(100 * time.Nanosecond)
maxd == MaxInt - (MaxInt % TickNs)
\* int64(maxd / 100)
maxdUnits == maxd \div TickNs

\* As MoreChunks, for a decoder that multiplies and adds in one step.
MoreChunksNever(input) == FALSE

\* The loop condition, line 154.
MoreChunks(input) == input > maxdUnits

\* time.Duration(input * 100), line 159.
RestDuration(input) == Wrap(input * TickNs)

\* t.Add(d): a time.Time counts seconds in 64 bits beside the nanoseconds,
\* so adding a Duration is exact over the whole range reached here.
TimeAdd(t, d) == t + d

MainIdle ==
    /\ ldapdir = <<>>
    /\ store = <<>>
    /\ nextId = 1
    /\ pc = "idle"
    /\ run = 1
    /\ lapsentries = <<>>
    /\ onepassentries = <<>>
    /\ cur_laps_idx = 0
    /\ created_total = 0
    /\ updated_total = 0
    /\ exitStatus = -1
    /\ abort = "none"
    /\ calls = <<>>
    /\ seen = <<>>
    /\ snapshot0 = <<>>
    /\ prevRun = NoRun

\* A call getTimeFromFiletime(n), at line 153: t is the epoch.
DecInit ==
    /\ MainIdle
    /\ dec_n \in MinInt..MaxInt
    /\ dec_input = dec_n
    /\ dec_t = 0
    /\ dec_pc = "loop"
    /\ LapsIdle

\* lines 154-157: one iteration of the loop
DecodeChunk ==
    /\ dec_pc = "loop"
    /\ MoreChunks(dec_input)
    /\ dec_t' = TimeAdd(dec_t, maxd)
    /\ dec_input' = Wrap(dec_input - maxdUnits)
    /\ UNCHANGED <<dec_n, dec_pc>>
    /\ UNCHANGED lapsVars
    /\ UNCHANGED mainVars

\* lines 158-161: the loop is left, the rest is added
DecodeRest ==
    /\ dec_pc = "loop"
    /\ ~MoreChunks(dec_input)
    /\ dec_t' = IF dec_input # 0
                THEN TimeAdd(dec_t, RestDuration(dec_input))
                ELSE dec_t
    /\ dec_pc' = "done"
    /\ UNCHANGED <<dec_n, dec_input>>
    /\ UNCHANGED lapsVars
    /\ UNCHANGED mainVars

DecNext == DecodeChunk \/ DecodeRest

SpecDecode == DecInit /\ [][DecNext]_vars /\ WF_vars(DecNext)

----------------------------------------------------------------------------
(* GetLapsEntries: the body of the loop over the search result, for one    *)
(* entry.  An attribute value is a sequence of characters.                 *)

Digits == <<"0", "1", "2", "3", "4", "5", "6", "7", "8", "9">>

IsDigit(c) == \E d \in 1..Len(Digits) : Digits[d] = c
DigitValue(c) == (CHOOSE d \in 1..Len(Digits) : Digits[d] = c) - 1

\* The number a sequence of decimal digits denotes.
RECURSIVE Decimal(_)
Decimal(cs) ==
    IF cs = <<>> THEN 0
    ELSE 10 * Decimal(SubSeq(cs, 1, Len(cs) - 1)) + DigitValue(cs[Len(cs)])

\* strconv.ParseInt(s, 10, 64), the width narrowed to DurBits: an optional
\* sign and at least one digit, nothing else; a value out of range is an
\* error too.
ParseInt(s) ==
    LET signed == s # <<>> /\ s[1] \in {"+", "-"}
        digits == IF signed THEN Tail(s) ELSE s
        n      == IF signed /\ s[1] = "-" THEN 0 - Decimal(digits)
                  ELSE Decimal(digits)
    IN  IF digits = <<>> \/ \E k \in 1..Len(digits) : ~IsDigit(digits[k])
        THEN [value |-> 0, err |-> "syntax"]
        ELSE IF n > MaxInt THEN [value |-> MaxInt, err |-> "range"]
        ELSE IF n < MinInt THEN [value |-> MinInt, err |-> "range"]
        ELSE [value |-> n, err |-> "nil"]

\* lines 201-205: the tick count handed to getTimeFromFiletime.
ExpirationTicks(s) ==
    IF ParseInt(s).err # "nil" THEN 0 ELSE ParseInt(s).value

\* A time.Time: an instant, written as an epoch and the nanoseconds since.
\* The zero Time is January 1, year 1; getTimeFromFiletime starts from
\* time.Date(1601, 1, 1, ...).
ZeroTime == [epoch |-> "0001-01-01T00:00:00Z", ns |-> 0]
FiletimeEpoch(ns) == [epoch |-> "1601-01-01T00:00:00Z", ns |-> ns]

\* Values of the attribute: what the characters below spell.
TimestampChars == {"-", "0", "1", "9", "x"}
TimestampStrings == SeqsUpTo(TimestampChars, 0, MaxChars)

\* GetLapsEntries at line 200, for one entry of the search result.
LapsInit ==
    /\ MainIdle
    /\ dec_n = 0
    /\ dec_input = 0
    /\ dec_t = 0
    /\ dec_pc = "idle"
    /\ ldap_s \in TimestampStrings
    /\ ldap_out = <<>>
    /\ ldap_pc = "parse"

\* lines 200-205 and the call of line 210
ParseExpiration ==
    /\ ldap_pc = "parse"
    /\ dec_n' = ExpirationTicks(ldap_s)
    /\ dec_input' = dec_n'
    /\ dec_t' = 0
    /\ dec_pc' = "loop"
    /\ ldap_pc' = "decode"
    /\ UNCHANGED <<ldap_s, ldap_out>>
    /\ UNCHANGED mainVars

\* lines 206-211, and line 214 after the last entry: the err returned is
\* the one of Search, the err of ParseInt being local to the loop body.
AppendLapsEntry ==
    /\ ldap_pc = "decode"
    /\ dec_pc = "done"
    /\ ldap_out' = Append(ldap_out, [expiration |-> FiletimeEpoch(dec_t)])
    /\ ldap_pc' = "returned nil"
    /\ UNCHANGED <<dec_n, dec_input, dec_t, dec_pc, ldap_s>>
    /\ UNCHANGED mainVars

LapsNext == ParseExpiration \/ DecodeChunk \/ DecodeRest \/ AppendLapsEntry

SpecLaps == LapsInit /\ [][LapsNext]_vars /\ WF_vars(LapsNext)

----------------------------------------------------------------------------
(* Vocabulary of the properties *)

\* CompareLapsToOnepass was entered and is over, by return or by panic.
CompareOver == pc = "exited" /\ abort \in {"done", "compare", "panic"}

Records == 1..Len(lapsentries)

CallsOf(i, kind) ==
    { k \in 1..Len(calls) : calls[k].rec = i /\ calls[k].kind = kind }

\* No action for a record before i ended in an error or a panic.
NoEarlierFailure(i) ==
    \A k \in 1..Len(calls) : calls[k].rec < i => calls[k].ret = "nil"

\* The record's dnshostname is the title of no entry of the snapshot.
Unmatched(i) ==
    \A k \in 1..Len(snapshot0) :
        snapshot0[k].Title # lapsentries[i].dnshostname

\* The entries of the snapshot titled with the record's dnshostname.
Titled(i) ==
    { k \in 1..Len(snapshot0) :
        snapshot0[k].Title = lapsentries[i].dnshostname }

----------------------------------------------------------------------------
(* C1 *)

\* C1: once CompareLapsToOnepass is over, every record whose dnshostname
\* is the title of no snapshot entry, and before which no action failed,
\* has exactly one create call, titled with its dnshostname and carrying
\* its password; and at no time has such a record an update call or more
\* than one create call.
Thm_C1_UnmatchedCreatedOnce ==
    \A i \in Records :
        Unmatched(i) =>
            /\ CallsOf(i, "update") = {}
            /\ Cardinality(CallsOf(i, "create")) <= 1
            /\ \A k \in CallsOf(i, "create") :
                  /\ calls[k].title = lapsentries[i].dnshostname
                  /\ calls[k].password = lapsentries[i].password
            /\ (CompareOver /\ NoEarlierFailure(i))
                  => Cardinality(CallsOf(i, "create")) = 1

\* C1 witness: a finished run in which the second record, unmatched, was
\* created in the store after an action for the first record.
Wit_C1_SecondRecordCreated ==
    /\ CompareOver
    /\ abort = "done"
    /\ Len(lapsentries) = 2
    /\ Unmatched(2)
    /\ CallsOf(1, "update") # {}
    /\ \E k \in CallsOf(2, "create") : calls[k].write = "ok"

----------------------------------------------------------------------------
(* C9 *)

\* The stages of main that fail before CompareLapsToOnepass is called.
EarlyAborts ==
    {"env", "ldap", "ldap empty", "vault: client", "vault: lookup",
     "vault: not found", "vault: found more than once", "vault: items"}

\* C9: when the process has ended, its status is non-zero if the
\* environment check, the directory read (an error or no record), the vault
\* read or the comparison failed, and no create or update was called in
\* the first three cases; the status is zero otherwise, an empty vault
\* included.
Thm_C9_ExitStatus ==
    pc = "exited" =>
        /\ abort \in EarlyAborts => (exitStatus > 0 /\ calls = <<>>)
        /\ abort \in {"compare", "panic"} => exitStatus > 0
        /\ abort \notin (EarlyAborts \cup {"compare", "panic"})
              => exitStatus = 0
        /\ (\E k \in 1..Len(calls) : calls[k].ret # "nil") => exitStatus > 0
        /\ (abort = "done" /\ snapshot0 = <<>>) => exitStatus = 0

\* C9 witness: the comparison returned an error after a first record was
\* handled, and the process has ended.
Wit_C9_CompareAborted ==
    /\ pc = "exited"
    /\ abort = "compare"
    /\ Len(calls) = 2
    /\ calls[2].ret = "err"

----------------------------------------------------------------------------
(* C10 *)

\* C10: for every n >= 0 the decoder ends, and ends with the epoch plus
\* exactly n intervals of 100 ns.
Thm_C10_DecodeExact ==
    /\ [](dec_pc = "done" /\ dec_n >= 0 => dec_t = dec_n * TickNs)
    /\ <>(dec_pc = "done")

\* C10 witness: a decoded tick count that took at least two chunks.
Wit_C10_TwoChunks ==
    /\ dec_pc = "done"
    /\ dec_n > 2 * maxdUnits
    /\ dec_input < dec_n - maxdUnits
    /\ dec_t = dec_n * TickNs

----------------------------------------------------------------------------
(* C2, C3: matched records *)

\* The record was matched, and the entry it was matched with had a field
\* of purpose PASSWORD at index 1 when the record was compared.
MatchedWithPassword(i) ==
    /\ i <= Len(seen)
    /\ seen[i].match # 0
    /\ Len(seen[i].Fields) >= 2
    /\ seen[i].Fields[2].Purpose = "PASSWORD"

\* The password the matched entry stored when the record was compared.
StoredPassword(i) == seen[i].Fields[2].Value

\* C2: a record matched with an entry whose stored password differs from
\* the record's has exactly one update call, on the first entry titled
\* with its dnshostname and carrying the record's password, and no create
\* call.
CX_C2_DifferingRotatedOnce ==
    \A i \in Records :
        (MatchedWithPassword(i)
         /\ StoredPassword(i) # lapsentries[i].password) =>
            /\ CallsOf(i, "create") = {}
            /\ Cardinality(CallsOf(i, "update")) = 1
            /\ \A k \in CallsOf(i, "update") :
                  /\ calls[k].target \in Titled(i)
                  /\ \A j \in Titled(i) : calls[k].target <= j
                  /\ calls[k].password = lapsentries[i].password

\* C3: a record matched with an entry whose stored password equals the
\* record's has no create call and no update call.
CX_C3_EqualUntouched ==
    \A i \in Records :
        (MatchedWithPassword(i)
         /\ StoredPassword(i) = lapsentries[i].password) =>
            /\ CallsOf(i, "create") = {}
            /\ CallsOf(i, "update") = {}

----------------------------------------------------------------------------
(* C4 *)

DistinctHostKeys ==
    \A i, j \in 1..Len(ldapdir) :
        ldapdir[i].dnshostname = ldapdir[j].dnshostname => i = j

\* C4: when the previous run ended with status 0 and every create and
\* update it called was applied to the store, a run over the same records
\* (of distinct dnshostnames) and the store as it is calls no create and no
\* update.
CX_C4_SecondRunIdle ==
    (/\ run > 1
     /\ prevRun.status = 0
     /\ prevRun.applied
     /\ DistinctHostKeys) => calls = <<>>

----------------------------------------------------------------------------
(* C5 *)

\* A store call of the action failed: the client could not be built, the
\* vault lookup returned an error, or CreateItem or UpdateItem did.
StoreCallFailed(c) ==
    \/ ~c.client
    \/ c.vaults = "err"
    \/ c.write = "fail"

\* C5: an action of which a store call failed returns an error,
\* CompareLapsToOnepass returns it and the process ends with status 1, and
\* no create or update is called after it.
CX_C5_FailFast ==
    \A k \in 1..Len(calls) :
        StoreCallFailed(calls[k]) =>
            /\ calls[k].ret = "err"
            /\ k = Len(calls)
            /\ pc = "exited"
            /\ exitStatus = 1

----------------------------------------------------------------------------
(* C6 *)

\* The field list does not have PASSWORD at index 1 and NOTES at index 2.
BadLayout(fields) ==
    \/ Len(fields) < 3
    \/ fields[2].Purpose # "PASSWORD"
    \/ fields[3].Purpose # "NOTES"

\* C6: an update of an entry whose layout is not the expected one panics,
\* leaves every field of the entry as it was, and calls no UpdateItem.
CX_C6_IntegrityFaultWritesNothing ==
    \A k \in 1..Len(calls) :
        (/\ calls[k].kind = "update"
         /\ calls[k].client
         /\ BadLayout(calls[k].before)) =>
            /\ calls[k].ret = "panic"
            /\ calls[k].write = "none"
            /\ onepassentries[calls[k].target].Fields = calls[k].before

----------------------------------------------------------------------------
(* C7 *)

\* C7: a vault title that resolves to no vault or to several is fatal.  A
\* create that meets it returns an error, creates nothing, ends the run
\* with a non-zero status and is not counted; a vault read that meets it
\* ends the process with a non-zero status before any action.
CX_C7_VaultLookupFatal ==
    /\ \A k \in 1..Len(calls) :
          (/\ calls[k].kind = "create"
           /\ calls[k].client
           /\ calls[k].vaults \in {"none", "many"}) =>
              /\ calls[k].ret = "err"
              /\ calls[k].write = "none"
              /\ k = Len(calls)
              /\ pc = "exited"
              /\ exitStatus > 0
              /\ created_total < Cardinality({ c \in 1..Len(calls) :
                                                 calls[c].kind = "create" })
    /\ abort \in {"vault: not found", "vault: found more than once"} =>
          (pc = "exited" /\ exitStatus > 0 /\ calls = <<>>)

----------------------------------------------------------------------------
(* C8 *)

\* C8: no create and no update that reaches the store carries an empty
\* password.
CX_C8_NoEmptySecretWritten ==
    \A k \in 1..Len(calls) :
        calls[k].write = "ok" => calls[k].password # ""

----------------------------------------------------------------------------
(* C11 *)

\* C11: when the attribute does not parse, getTimeFromFiletime is not
\* called, and the entry is appended with the zero Time as its expiration
\* and GetLapsEntries returns no error.
CX_C11_UnparsableGivesZeroTime ==
    (ParseInt(ldap_s).err # "nil" /\ ldap_pc = "returned nil") =>
        /\ dec_pc = "idle"
        /\ Len(ldap_out) = 1
        /\ ldap_out[1].expiration = ZeroTime

----------------------------------------------------------------------------
(* C12 *)

\* C12: when CompareLapsToOnepass is over, the records and the snapshot in
\* memory are what main passed in.
CX_C12_InputsUntouched ==
    CompareOver =>
        /\ lapsentries = ldapdir
        /\ onepassentries = snapshot0

----------------------------------------------------------------------------
(* C13 *)

\* The lowest index of a snapshot entry titled exactly with the record's
\* dnshostname, 0 when there is none.
LowestTitled(i) ==
    IF Titled(i) = {} THEN 0
    ELSE CHOOSE k \in Titled(i) : \A j \in Titled(i) : k <= j

\* The snapshot entry has an entry of the same title before it.
Shadowed(k) == \E j \in 1..(k - 1) : snapshot0[j].Title = snapshot0[k].Title

\* C13: every record is compared with the snapshot entry of lowest index
\* whose title is exactly its dnshostname, every update called for it is
\* on that entry, and an entry that has one of the same title before it is
\* never written, in memory or in the store.
Thm_C13_FirstMatch ==
    /\ \A i \in 1..Len(seen) :
          /\ seen[i].match = LowestTitled(i)
          /\ \A k \in CallsOf(i, "update") : calls[k].target = LowestTitled(i)
          /\ (CallsOf(i, "update") = {} /\ LowestTitled(i) # 0) =>
                lapsentries[i].password
                    = GetValueFrom(seen[i].Fields, 1, "password")
    /\ \A k \in 1..Len(snapshot0) :
          Shadowed(k) =>
              /\ onepassentries[k] = snapshot0[k]
              /\ \E j \in 1..Len(store) : store[j] = snapshot0[k]

\* C13 witness: an update was called for a record whose dnshostname is the
\* title of two snapshot entries, and it was on the first of them.
Wit_C13_DuplicateTitles ==
    \E k \in 1..Len(calls) :
        /\ calls[k].kind = "update"
        /\ calls[k].write = "ok"
        /\ Cardinality(Titled(calls[k].rec)) >= 2
        /\ calls[k].target = 1

----------------------------------------------------------------------------
(* C14 *)

\* No two items of the store have the same title.
DistinctTitles(st) ==
    \A i, j \in 1..Len(st) : st[i].Title = st[j].Title => i = j

\* Every item of st is in st2, at its place and under its title.
KeepsItems(st, st2) ==
    /\ Len(st2) >= Len(st)
    /\ \A k \in 1..Len(st) :
          st2[k].ID = st[k].ID /\ st2[k].Title = st[k].Title

\* C14: with records of pairwise distinct dnshostnames, a store whose
\* titles are pairwise distinct keeps them so through every step of every
\* run, whether the run is completed or aborted; and no step of a run
\* removes or retitles an item.
Thm_C14_OneItemPerTitle ==
    [][/\ KeepsItems(store, store')
       /\ (DistinctHostKeys /\ DistinctTitles(store))
             => DistinctTitles(store')]_vars

\* C14 witness: a second run has ended on a store of two items of distinct
\* titles, one of them created by the program, for two records of distinct
\* dnshostnames.
Wit_C14_SecondRunDistinct ==
    /\ run = 2
    /\ pc = "exited"
    /\ abort = "done"
    /\ Len(ldapdir) = 2
    /\ DistinctHostKeys
    /\ Len(store) = 2
    /\ DistinctTitles(store)
    /\ store[2].Fields[3].Value = CreatedNote
    /\ calls # <<>>

=============================================================================
